---- MODULE Spec2Model ----
(***************************************************************************)
(* A model of pycosat.c, the Python binding to the picosat SAT engine:     *)
(* solve, itersolve and the solution iterator (soliter_next,               *)
(* soliter_dealloc), with clause ingestion (add_clauses / add_clause),     *)
(* solution decoding (get_solution) and blocking clauses (blocksol).       *)
(* The engine itself (picosat.c) is modelled by its contract.              *)
(*                                                                         *)
(* One request is followed from the call of solve or itersolve to its end. *)
(* An engine call on a handle that picosat_reset already destroyed has no  *)
(* defined behaviour: the step that makes it sets the handle's uaf flag    *)
(* and ends in pc = "undefined", from where nothing more is claimed.       *)
(***************************************************************************)
EXTENDS Integers, Sequences, FiniteSets, TLC

\* ------------------------------------------------------------------ bounds
\* largest variable index a caller's literal names
MaxVar == 2
\* largest number of clauses in a caller's clause set
MaxClauses == 2
\* largest number of elements in one caller clause
MaxLen == 2
\* largest value of the vars hint
MaxHint == 2
NThreads == 2

\* ------------------------------------------------------- program constants
PICOSAT_UNKNOWN == 0
PICOSAT_SATISFIABLE == 10
PICOSAT_UNSATISFIABLE == 20

\* ------------------------------------------------------------------ helpers
Abs(x) == IF x < 0 THEN -x ELSE x

Max(a, b) == IF a >= b THEN a ELSE b

SeqsUpTo(S, n) == UNION {[1..k -> S] : k \in 0..n}

\* ------------------------------------------------- Python values (inputs)
\* An element of a clause: a Python object that is an int or is not.  An
\* int's value is hi * 2^32 + lo with lo in the range of a C int.
IntObj(hi, lo) == [isInt |-> TRUE, hi |-> hi, lo |-> lo]

NonIntObj == [isInt |-> FALSE, hi |-> 0, lo |-> 0]

ListObj(items) == [isList |-> TRUE, items |-> items]

NonListObj == [isList |-> FALSE, items |-> <<>>]

Elems == {IntObj(0, l) : l \in (-MaxVar)..MaxVar} \cup {NonIntObj}

ClauseObjs == {ListObj(s) : s \in SeqsUpTo(Elems, MaxLen)} \cup {NonListObj}

ClausesObjs == {ListObj(s) : s \in SeqsUpTo(ClauseObjs, MaxClauses)} \cup {NonListObj}

\* vars: -1 means "not given"
Hints == (-1)..MaxHint

\* prop_limit: 0 means "no limit"
PropLimits == {0, 1}

\* v = PyLong_AsLong(lit) stored into an int: the low 32 bits, signed
PyLong_AsLong(lit) == lit.lo

\* ------------------------------------------------------ the engine (picosat)
\* An engine handle.  cls: the terminated clauses; open: the literals added
\* since the last terminator; val: the assignment of the last SATISFIABLE
\* answer (<<>> when there is none); lprop: the propagation limit (0: none);
\* resets: calls of picosat_reset on the handle; uaf: an operation other than
\* the first picosat_reset was applied to the handle after its reset;
\* log: the values passed to picosat_add during the current operation.
NoPicosat ==
    [state |-> "none", max_var |-> 0, cls |-> {}, open |-> <<>>, val |-> <<>>,
     lprop |-> 0, resets |-> 0, uaf |-> FALSE, log |-> <<>>]

picosat_minit == [NoPicosat EXCEPT !.state = "ready"]

Misuse(ps) == [ps EXCEPT !.uaf = TRUE]

picosat_adjust(ps, n) ==
    IF ps.state # "ready" THEN Misuse(ps)
    ELSE [ps EXCEPT !.max_var = Max(@, n)]

picosat_set_propagation_limit(ps, l) ==
    IF ps.state # "ready" THEN Misuse(ps)
    ELSE [ps EXCEPT !.lprop = l]

picosat_add(ps, lit) ==
    IF ps.state # "ready" THEN Misuse(ps)
    ELSE IF lit = 0
         THEN [ps EXCEPT !.cls = @ \cup {ps.open}, !.open = <<>>,
                         !.val = <<>>, !.log = Append(@, 0)]
         ELSE [ps EXCEPT !.open = Append(@, lit),
                         !.max_var = Max(@, Abs(lit)),
                         !.val = <<>>, !.log = Append(@, lit)]

picosat_variables(ps) == ps.max_var

picosat_deref(ps, i) == ps.val[i]

picosat_reset(ps) ==
    [ps EXCEPT !.state = "reset", !.resets = @ + 1, !.val = <<>>,
               !.uaf = (@ \/ ps.state # "ready")]

\* a clause (a sequence of non-zero literals) is true under assignment a
\* (a function from 1..n to {-1, 1})
ClauseTrue(c, a) == \E k \in 1..Len(c) : a[Abs(c[k])] * c[k] > 0

AllAssignments(n) == [1..n -> {-1, 1}]

Models(ps) == {a \in AllAssignments(ps.max_var) : \A c \in ps.cls : ClauseTrue(c, a)}

\* The answers picosat_sat may give: a model when there is one, UNSATISFIABLE
\* when there is none, and UNKNOWN only under a propagation limit.
picosat_sat(ps) ==
    (IF Models(ps) # {}
     THEN {[res |-> PICOSAT_SATISFIABLE, picosat |-> [ps EXCEPT !.val = a]] : a \in Models(ps)}
     ELSE {[res |-> PICOSAT_UNSATISFIABLE, picosat |-> [ps EXCEPT !.val = <<>>]]})
    \cup
    (IF ps.lprop # 0
     THEN {[res |-> PICOSAT_UNKNOWN, picosat |-> [ps EXCEPT !.val = <<>>]]}
     ELSE {})

\* picosat_sat of an engine that may also return the values in codes
picosat_sat_any(ps, codes) ==
    picosat_sat(ps) \cup {[res |-> code, picosat |-> [ps EXCEPT !.val = <<>>]] : code \in codes}

\* ------------------------------------------------------------- the binding
\* mutant of add_clause_loop: the clause is not terminated
RECURSIVE add_clause_loop_unterminated(_, _, _)
add_clause_loop_unterminated(ps, items, i) ==
    IF i > Len(items)
    THEN [rc |-> 0, err |-> "none", picosat |-> ps]
    ELSE IF ~items[i].isInt
         THEN [rc |-> -1, err |-> "TypeError", picosat |-> ps]
         ELSE IF PyLong_AsLong(items[i]) = 0
              THEN [rc |-> -1, err |-> "ValueError", picosat |-> ps]
              ELSE add_clause_loop_unterminated(picosat_add(ps, PyLong_AsLong(items[i])),
                                                items, i + 1)

\* add_clause: rc 0 and the clause terminated, or rc -1 and the error set
RECURSIVE add_clause_loop(_, _, _)
add_clause_loop(ps, items, i) ==
    IF i > Len(items)
    THEN [rc |-> 0, err |-> "none", picosat |-> picosat_add(ps, 0)]
    ELSE IF ~items[i].isInt
         THEN [rc |-> -1, err |-> "TypeError", picosat |-> ps]
         ELSE IF PyLong_AsLong(items[i]) = 0
              THEN [rc |-> -1, err |-> "ValueError", picosat |-> ps]
              ELSE add_clause_loop(picosat_add(ps, PyLong_AsLong(items[i])), items, i + 1)

add_clause(ps, clause) ==
    IF ~clause.isList
    THEN [rc |-> -1, err |-> "TypeError", picosat |-> ps]
    ELSE add_clause_loop(ps, clause.items, 1)

RECURSIVE add_clauses_loop(_, _, _)
add_clauses_loop(ps, items, i) ==
    IF i > Len(items)
    THEN [rc |-> 0, err |-> "none", picosat |-> ps]
    ELSE LET r == add_clause(ps, items[i])
         IN IF r.rc < 0 THEN r ELSE add_clauses_loop(r.picosat, items, i + 1)

add_clauses(ps, cl) ==
    IF ~cl.isList
    THEN [rc |-> -1, err |-> "TypeError", picosat |-> ps]
    ELSE add_clauses_loop(ps, cl.items, 1)

\* mutant of setup_picosat: the vars hint is not passed to picosat_adjust
setup_picosat_nohint(argsOk, cl, v, pl) ==
    IF ~argsOk
    THEN [null |-> TRUE, err |-> "ArgError", picosat |-> NoPicosat]
    ELSE LET p0 == picosat_minit
             p2 == IF pl # 0 THEN picosat_set_propagation_limit(p0, pl) ELSE p0
             r  == add_clauses(p2, cl)
         IN IF r.rc < 0
            THEN [null |-> TRUE, err |-> r.err, picosat |-> picosat_reset(r.picosat)]
            ELSE [null |-> FALSE, err |-> "none", picosat |-> r.picosat]

\* mutant of setup_picosat: the handle is not reset when add_clauses fails
setup_picosat_noreset(argsOk, cl, v, pl) ==
    IF ~argsOk
    THEN [null |-> TRUE, err |-> "ArgError", picosat |-> NoPicosat]
    ELSE LET p0 == picosat_minit
             p1 == IF v # -1 THEN picosat_adjust(p0, v) ELSE p0
             p2 == IF pl # 0 THEN picosat_set_propagation_limit(p1, pl) ELSE p1
             r  == add_clauses(p2, cl)
         IN IF r.rc < 0
            THEN [null |-> TRUE, err |-> r.err, picosat |-> r.picosat]
            ELSE [null |-> FALSE, err |-> "none", picosat |-> r.picosat]

\* setup_picosat: null (no handle returned, the error set) or the handle.
\* argsOk: PyArg_ParseTupleAndKeywords accepted the arguments.
setup_picosat(argsOk, cl, v, pl) ==
    IF ~argsOk
    THEN [null |-> TRUE, err |-> "ArgError", picosat |-> NoPicosat]
    ELSE LET p0 == picosat_minit
             p1 == IF v # -1 THEN picosat_adjust(p0, v) ELSE p0
             p2 == IF pl # 0 THEN picosat_set_propagation_limit(p1, pl) ELSE p1
             r  == add_clauses(p2, cl)
         IN IF r.rc < 0
            THEN [null |-> TRUE, err |-> r.err, picosat |-> picosat_reset(r.picosat)]
            ELSE [null |-> FALSE, err |-> "none", picosat |-> r.picosat]
\* mutant of get_solution: the sign of every literal inverted
get_solution_negated(ps, listFail) ==
    LET max_idx == picosat_variables(ps)
    IN IF listFail
       THEN [null |-> TRUE, list |-> <<>>, picosat |-> picosat_reset(ps)]
       ELSE [null |-> FALSE,
             list |-> [i \in 1..max_idx |-> (0 - picosat_deref(ps, i)) * i],
             picosat |-> ps]

\* get_solution: the list of v * i for i in 1..max_idx, or null with the
\* handle reset when the list cannot be built (listFail)
get_solution(ps, listFail) ==
    LET max_idx == picosat_variables(ps)
    IN IF listFail
       THEN [null |-> TRUE, list |-> <<>>, picosat |-> picosat_reset(ps)]
       ELSE [null |-> FALSE,
             list |-> [i \in 1..max_idx |-> picosat_deref(ps, i) * i],
             picosat |-> ps]

\* mutant of blocksol_add: the literals of the solution, not their inverses
RECURSIVE blocksol_add_same(_, _, _, _)
blocksol_add_same(ps, mem, i, max_idx) ==
    IF i > max_idx
    THEN ps
    ELSE blocksol_add_same(picosat_add(ps, IF mem[i] < 0 THEN -i ELSE i), mem, i + 1, max_idx)

\* blocksol: record the values in mem (allocated when mem is NULL; memFail:
\* PyMem_Malloc returns NULL), then add the clause of the inverse literals.
\* malloc: the number of buffers this call allocated.
RECURSIVE blocksol_add(_, _, _, _)
blocksol_add(ps, mem, i, max_idx) ==
    IF i > max_idx
    THEN ps
    ELSE blocksol_add(picosat_add(ps, IF mem[i] < 0 THEN i ELSE -i), mem, i + 1, max_idx)
\* mutant of blocksol: the clause is not terminated
blocksol_unterminated(ps, mem, memFail) ==
    LET max_idx == picosat_variables(ps)
    IN IF mem = "NULL" /\ memFail
       THEN [rc |-> -1, malloc |-> 0, picosat |-> ps]
       ELSE LET m == [i \in 1..max_idx |-> IF picosat_deref(ps, i) > 0 THEN 1 ELSE -1]
            IN [rc |-> 0,
                malloc |-> IF mem = "NULL" THEN 1 ELSE 0,
                picosat |-> blocksol_add(ps, m, 1, max_idx)]

blocksol(ps, mem, memFail) ==
    LET max_idx == picosat_variables(ps)
    IN IF mem = "NULL" /\ memFail
       THEN [rc |-> -1, malloc |-> 0, picosat |-> ps]
       ELSE LET m == [i \in 1..max_idx |-> IF picosat_deref(ps, i) > 0 THEN 1 ELSE -1]
            IN [rc |-> 0,
                malloc |-> IF mem = "NULL" THEN 1 ELSE 0,
                picosat |-> picosat_add(blocksol_add(ps, m, 1, max_idx), 0)]

Ret(kind, list) == [kind |-> kind, list |-> list]
\* mutant of solve_run: UNKNOWN falls into the case of UNSATISFIABLE
solve_run_conflated(out, listFail) ==
    LET g == get_solution(out.picosat, listFail)
    IN CASE out.res = PICOSAT_SATISFIABLE ->
                [ret |-> IF g.null THEN Ret("MemoryError", <<>>) ELSE Ret("list", g.list),
                 picosat |-> picosat_reset(g.picosat),
                 failed |-> g.null, decoded |-> TRUE]
         [] out.res \in {PICOSAT_UNSATISFIABLE, PICOSAT_UNKNOWN} ->
                [ret |-> Ret("UNSAT", <<>>),
                 picosat |-> picosat_reset(out.picosat),
                 failed |-> FALSE, decoded |-> FALSE]
         [] OTHER ->
                [ret |-> Ret("SystemError", <<>>),
                 picosat |-> picosat_reset(out.picosat),
                 failed |-> FALSE, decoded |-> FALSE]

\* solve after setup_picosat returned a handle: out is the engine's answer.
\* The handle is reset on the way out, whatever get_solution did to it.
solve_run(out, listFail) ==
    LET g == get_solution(out.picosat, listFail)
    IN CASE out.res = PICOSAT_SATISFIABLE ->
                [ret |-> IF g.null THEN Ret("MemoryError", <<>>) ELSE Ret("list", g.list),
                 picosat |-> picosat_reset(g.picosat),
                 failed |-> g.null, decoded |-> TRUE]
         [] out.res = PICOSAT_UNSATISFIABLE ->
                [ret |-> Ret("UNSAT", <<>>),
                 picosat |-> picosat_reset(out.picosat),
                 failed |-> FALSE, decoded |-> FALSE]
         [] out.res = PICOSAT_UNKNOWN ->
                [ret |-> Ret("UNKNOWN", <<>>),
                 picosat |-> picosat_reset(out.picosat),
                 failed |-> FALSE, decoded |-> FALSE]
         [] OTHER ->
                [ret |-> Ret("SystemError", <<>>),
                 picosat |-> picosat_reset(out.picosat),
                 failed |-> FALSE, decoded |-> FALSE]
\* mutant of soliter_next_run: the handle is reset when the iteration stops
soliter_next_run_release(out, mem, listFail, memFail) ==
    LET g == get_solution(out.picosat, listFail)
        b == blocksol(g.picosat, mem, memFail)
    IN CASE out.res = PICOSAT_SATISFIABLE ->
                IF g.null
                THEN [ret |-> Ret("SystemError", <<>>), picosat |-> g.picosat,
                      malloc |-> 0, failed |-> TRUE, decoded |-> TRUE]
                ELSE IF b.rc < 0
                     THEN [ret |-> Ret("MemoryError", <<>>), picosat |-> b.picosat,
                           malloc |-> 0, failed |-> TRUE, decoded |-> TRUE]
                     ELSE [ret |-> Ret("list", g.list), picosat |-> b.picosat,
                           malloc |-> b.malloc, failed |-> FALSE, decoded |-> TRUE]
         [] out.res \in {PICOSAT_UNSATISFIABLE, PICOSAT_UNKNOWN} ->
                [ret |-> Ret("stop", <<>>), picosat |-> picosat_reset(out.picosat),
                 malloc |-> 0, failed |-> FALSE, decoded |-> FALSE]
         [] OTHER ->
                [ret |-> Ret("SystemError", <<>>), picosat |-> out.picosat,
                 malloc |-> 0, failed |-> FALSE, decoded |-> FALSE]

\* mutant of soliter_next_run: an unexpected answer ends the iteration silently
soliter_next_run_silent(out, mem, listFail, memFail) ==
    LET g == get_solution(out.picosat, listFail)
        b == blocksol(g.picosat, mem, memFail)
    IN CASE out.res = PICOSAT_SATISFIABLE ->
                IF g.null
                THEN [ret |-> Ret("SystemError", <<>>), picosat |-> g.picosat,
                      malloc |-> 0, failed |-> TRUE, decoded |-> TRUE]
                ELSE IF b.rc < 0
                     THEN [ret |-> Ret("MemoryError", <<>>), picosat |-> b.picosat,
                           malloc |-> 0, failed |-> TRUE, decoded |-> TRUE]
                     ELSE [ret |-> Ret("list", g.list), picosat |-> b.picosat,
                           malloc |-> b.malloc, failed |-> FALSE, decoded |-> TRUE]
         [] OTHER ->
                [ret |-> Ret("stop", <<>>), picosat |-> out.picosat,
                 malloc |-> 0, failed |-> FALSE, decoded |-> FALSE]

\* soliter_next after picosat_sat answered out; mem is it->mem.  "stop" is a
\* NULL return with no error set (the end of the iteration).
soliter_next_run(out, mem, listFail, memFail) ==
    LET g == get_solution(out.picosat, listFail)
        b == blocksol(g.picosat, mem, memFail)
    IN CASE out.res = PICOSAT_SATISFIABLE ->
                IF g.null
                THEN [ret |-> Ret("SystemError", <<>>), picosat |-> g.picosat,
                      malloc |-> 0, failed |-> TRUE, decoded |-> TRUE]
                ELSE IF b.rc < 0
                     THEN [ret |-> Ret("MemoryError", <<>>), picosat |-> b.picosat,
                           malloc |-> 0, failed |-> TRUE, decoded |-> TRUE]
                     ELSE [ret |-> Ret("list", g.list), picosat |-> b.picosat,
                           malloc |-> b.malloc, failed |-> FALSE, decoded |-> TRUE]
         [] out.res \in {PICOSAT_UNSATISFIABLE, PICOSAT_UNKNOWN} ->
                [ret |-> Ret("stop", <<>>), picosat |-> out.picosat,
                 malloc |-> 0, failed |-> FALSE, decoded |-> FALSE]
         [] OTHER ->
                [ret |-> Ret("SystemError", <<>>), picosat |-> out.picosat,
                 malloc |-> 0, failed |-> FALSE, decoded |-> FALSE]

\* ------------------------------------------------------------------- state
VARIABLES
    pc,          \* "idle", "done" (solve or a failed itersolve returned),
                 \* "iter" (a cursor exists), "freed" (the cursor was
                 \* deallocated), "undefined" (a destroyed handle was used)
    op,          \* the operation that ran last
    clauses,     \* the caller's clauses argument
    vars_hint,   \* the caller's vars argument
    prop_limit,  \* the caller's prop_limit argument
    picosat,     \* the engine handle of the request
    it,          \* the soliterobject: allocated, and its mem field
    res,         \* the last return value of picosat_sat (-1: none yet)
    ret,         \* what the last operation returned to the caller
    invoked,     \* picosat_sat was called for this request
    mallocs,     \* buffers obtained from PyMem_Malloc by blocksol
    frees,       \* buffers given to PyMem_Free by soliter_dealloc
    yielded,     \* the assignments the cursor returned
    nyield,      \* how many times the cursor returned an assignment
    allocFailed, \* an allocation of this request failed
    stopAt,      \* nyield at the first "stop" of the cursor (-1: none yet)
    model,       \* the engine's values at its last SATISFIABLE answer
    decoded,     \* the last operation called get_solution
    gil,         \* the thread that holds the interpreter lock (0: nobody)
    tpc,         \* each thread's position: "py" (outside picosat_sat),
                 \* "solve_sat" / "next_sat" (between Py_BEGIN_ALLOW_THREADS
                 \* and Py_END_ALLOW_THREADS of solve / soliter_next)
    tloc,        \* each thread's local 'picosat' of a solve in progress
    actor        \* the thread that took the last step of a handler (0: none)

vars == <<pc, op, clauses, vars_hint, prop_limit, picosat, it, res, ret, invoked,
          mallocs, frees, yielded, nyield, allocFailed, stopAt, model, decoded,
          gil, tpc, tloc, actor>>

\* the variables only threads change
tvars == <<gil, tpc, tloc, actor>>

Threads == 1..NThreads

NoIt == [allocated |-> FALSE, mem |-> "NULL"]

Init ==
    /\ pc = "idle"
    /\ op = "none"
    /\ clauses = NonListObj
    /\ vars_hint = -1
    /\ prop_limit = 0
    /\ picosat = NoPicosat
    /\ it = NoIt
    /\ res = -1
    /\ ret = Ret("none", <<>>)
    /\ invoked = FALSE
    /\ mallocs = 0
    /\ frees = 0
    /\ yielded = {}
    /\ nyield = 0
    /\ allocFailed = FALSE
    /\ stopAt = -1
    /\ model = <<>>
    /\ decoded = FALSE
    /\ gil = 0
    /\ tpc = [t \in Threads |-> "py"]
    /\ tloc = [t \in Threads |-> NoPicosat]
    /\ actor = 0

\* solve(clauses, vars, prop_limit), the clauses drawn from Inputs and the
\* engine also returning the values in codes
solve_of(Inputs, codes) ==
    /\ pc = "idle"
    /\ \E argsOk \in BOOLEAN, cl \in Inputs, v \in Hints, pl \in PropLimits,
          listFail \in BOOLEAN :
        LET s == setup_picosat(argsOk, cl, v, pl)
        IN /\ op' = "solve"
           /\ clauses' = cl
           /\ vars_hint' = v
           /\ prop_limit' = pl
           /\ IF s.null
              THEN /\ picosat' = s.picosat
                   /\ ret' = Ret(s.err, <<>>)
                   /\ pc' = "done"
                   /\ decoded' = FALSE
                   /\ UNCHANGED <<res, invoked, allocFailed, model>>
              ELSE \E out \in picosat_sat_any(s.picosat, codes) :
                     LET r == solve_run(out, listFail)
                     IN /\ picosat' = r.picosat
                        /\ res' = out.res
                        /\ invoked' = TRUE
                        /\ allocFailed' = r.failed
                        /\ model' = out.picosat.val
                        /\ decoded' = r.decoded
                        /\ ret' = IF r.picosat.uaf THEN Ret("undefined", <<>>) ELSE r.ret
                        /\ pc' = IF r.picosat.uaf THEN "undefined" ELSE "done"
    /\ UNCHANGED <<it, mallocs, frees, yielded, nyield, stopAt>>

solve == solve_of(ClausesObjs, {}) /\ UNCHANGED tvars

\* itersolve(clauses, vars, prop_limit); itFail: PyObject_GC_New returns NULL
itersolve_of(Inputs) ==
    /\ pc = "idle"
    /\ \E argsOk \in BOOLEAN, cl \in Inputs, v \in Hints, pl \in PropLimits,
          itFail \in BOOLEAN :
        LET s == setup_picosat(argsOk, cl, v, pl)
        IN /\ op' = "itersolve"
           /\ clauses' = cl
           /\ vars_hint' = v
           /\ prop_limit' = pl
           /\ IF itFail
              THEN /\ ret' = Ret("MemoryError", <<>>)
                   /\ pc' = "done"
                   /\ allocFailed' = TRUE
                   /\ UNCHANGED <<picosat, it>>
              ELSE /\ picosat' = s.picosat
                   /\ it' = [allocated |-> TRUE, mem |-> "NULL"]
                   /\ ret' = IF s.null THEN Ret(s.err, <<>>) ELSE Ret("cursor", <<>>)
                   /\ pc' = IF s.null THEN "done" ELSE "iter"
                   /\ UNCHANGED allocFailed
    /\ UNCHANGED <<res, invoked, mallocs, frees, yielded, nyield, stopAt, model, decoded>>

itersolve == itersolve_of(ClausesObjs) /\ UNCHANGED tvars

\* next(cursor), the engine also returning the values in codes
soliter_next_of(codes) ==
    /\ pc = "iter"
    /\ op' = "soliter_next"
    /\ IF picosat.state # "ready"
       THEN /\ picosat' = Misuse(picosat)
            /\ pc' = "undefined"
            /\ ret' = Ret("undefined", <<>>)
            /\ decoded' = FALSE
            /\ UNCHANGED <<res, invoked, mallocs, yielded, nyield, allocFailed, stopAt, model>>
       ELSE \E out \in picosat_sat_any([picosat EXCEPT !.log = <<>>], codes),
               listFail \in BOOLEAN, memFail \in BOOLEAN :
              LET r == soliter_next_run(out, it.mem, listFail, memFail)
                  y == r.ret.kind = "list"
              IN /\ picosat' = r.picosat
                 /\ res' = out.res
                 /\ invoked' = TRUE
                 /\ ret' = r.ret
                 /\ pc' = "iter"
                 /\ mallocs' = mallocs + r.malloc
                 /\ yielded' = IF y THEN yielded \cup {r.ret.list} ELSE yielded
                 /\ nyield' = IF y THEN nyield + 1 ELSE nyield
                 /\ allocFailed' = (allocFailed \/ r.failed)
                 /\ stopAt' = IF r.ret.kind = "stop" /\ stopAt = -1 THEN nyield ELSE stopAt
                 /\ model' = out.picosat.val
                 /\ decoded' = r.decoded
    /\ UNCHANGED <<clauses, vars_hint, prop_limit, it, frees>>

soliter_next == soliter_next_of({}) /\ UNCHANGED tvars

\* the cursor's last reference is dropped
soliter_dealloc_run ==
    /\ pc = "iter"
    /\ op' = "soliter_dealloc"
    /\ frees' = IF it.mem # "NULL" THEN frees + 1 ELSE frees
    /\ picosat' = picosat_reset(picosat)
    /\ it' = [it EXCEPT !.allocated = FALSE]
    /\ pc' = IF picosat'.uaf THEN "undefined" ELSE "freed"
    /\ ret' = Ret("none", <<>>)
    /\ decoded' = FALSE
    /\ UNCHANGED <<clauses, vars_hint, prop_limit, res, invoked, mallocs, yielded,
                   nyield, allocFailed, stopAt, model>>

soliter_dealloc == soliter_dealloc_run /\ UNCHANGED tvars

Next == solve \/ itersolve \/ soliter_next \/ soliter_dealloc

Spec == Init /\ [][Next]_vars

\* --------------------------------------------- the caller's view of an input
\* a clause set every element of which add_clauses must accept
WellFormed(cl) ==
    /\ cl.isList
    /\ \A k \in 1..Len(cl.items) :
         /\ cl.items[k].isList
         /\ \A j \in 1..Len(cl.items[k].items) :
              LET e == cl.items[k].items[j]
              IN e.isInt /\ ~(e.hi = 0 /\ e.lo = 0)

\* the variable indices the clauses name
InputIdx(cl) ==
    UNION {{Abs(cl.items[k].items[j].lo) : j \in 1..Len(cl.items[k].items)} :
              k \in 1..Len(cl.items)}

SetMax(S) == IF S = {} THEN 0 ELSE CHOOSE m \in S : \A x \in S : x <= m

\* the engine's variable count for the request: the largest index named, or
\* the vars hint when that is larger
NVars == Max(vars_hint, SetMax(InputIdx(clauses)))

\* the caller's clause c holds one of the literals of the assignment list
InputClauseTrue(c, list) ==
    \E j \in 1..Len(c.items) : \E i \in 1..Len(list) :
        c.items[j].isInt /\ c.items[j].hi = 0 /\ c.items[j].lo = list[i]

AsList(a) == [i \in DOMAIN a |-> a[i] * i]

\* the total assignments over 1..n that make every caller clause true
InputModels(cl, n) ==
    {a \in AllAssignments(n) :
        \A k \in 1..Len(cl.items) : InputClauseTrue(cl.items[k], AsList(a))}

\* ------------------------------------- an engine that breaks its contract
\* return values of picosat_sat that are none of its three answers
OtherCodes == {1, 30}

ValidInputs == {cl \in ClausesObjs : WellFormed(cl)}

NextAnyCode ==
    \/ solve_of(ValidInputs, OtherCodes) /\ UNCHANGED tvars
    \/ itersolve_of(ValidInputs) /\ UNCHANGED tvars
    \/ soliter_next_of(OtherCodes) /\ UNCHANGED tvars
    \/ soliter_dealloc

SpecAnyCode == Init /\ [][NextAnyCode]_vars

\* ------------------------------------------- literals wider than a C int
\* ints 2^32 - 1, 2^32 and 2^32 + 1 beside -1, 0 and 1
WideElems == {IntObj(h, l) : h \in {0, 1}, l \in {-1, 0, 1}}

WideInputs ==
    {ListObj(s) : s \in SeqsUpTo({ListObj(c) : c \in SeqsUpTo(WideElems, MaxLen)}, MaxClauses)}

NextWide ==
    \/ solve_of(WideInputs, {}) /\ UNCHANGED tvars
    \/ itersolve_of(WideInputs) /\ UNCHANGED tvars
    \/ soliter_next_of({}) /\ UNCHANGED tvars
    \/ soliter_dealloc

SpecWide == Init /\ [][NextWide]_vars

\* ------------------------------------------------- threads and the lock
\* Threads of one interpreter share one cursor and call solve and next; a
\* handler runs under the interpreter lock except between
\* Py_BEGIN_ALLOW_THREADS and Py_END_ALLOW_THREADS, where picosat_sat runs.
\* The threads pass the clause set [[1]], with any vars and prop_limit.
ThreadInputs ==
    {cl \in ValidInputs : /\ Len(cl.items) = 1 /\ Len(cl.items[1].items) = 1
                          /\ cl.items[1].items[1].lo = 1}

\* Py_BEGIN_ALLOW_THREADS by thread t, the lock being g: the lock after it
Py_BEGIN_ALLOW_THREADS(g, t) == IF g = t THEN 0 ELSE g

\* mutant of Py_END_ALLOW_THREADS: the lock is not taken back
Py_END_ALLOW_THREADS_missing(g, t) == g

\* Py_END_ALLOW_THREADS by thread t, once the lock g is free: the lock after it
Py_END_ALLOW_THREADS(g, t) == t

\* the interpreter hands the lock from a thread running Python code ...
drop_gil(t) ==
    /\ pc # "undefined"
    /\ tpc[t] = "py" /\ gil = t
    /\ gil' = 0
    /\ actor' = 0
    /\ UNCHANGED <<pc, op, clauses, vars_hint, prop_limit, picosat, it, res, ret,
                   invoked, mallocs, frees, yielded, nyield, allocFailed, stopAt,
                   model, decoded, tpc, tloc>>

\* ... to a thread waiting to run Python code
take_gil(t) ==
    /\ pc # "undefined"
    /\ tpc[t] = "py" /\ gil = 0
    /\ gil' = t
    /\ actor' = 0
    /\ UNCHANGED <<pc, op, clauses, vars_hint, prop_limit, picosat, it, res, ret,
                   invoked, mallocs, frees, yielded, nyield, allocFailed, stopAt,
                   model, decoded, tpc, tloc>>

\* solve up to the call of picosat_sat: setup_picosat, then the lock is released
solve_enter(t) ==
    /\ pc # "undefined"
    /\ tpc[t] = "py" /\ gil = t
    /\ actor' = t
    /\ \E argsOk \in BOOLEAN, cl \in ThreadInputs, v \in Hints, pl \in PropLimits :
        LET s == setup_picosat(argsOk, cl, v, pl)
        IN IF s.null
           THEN /\ op' = "solve"
                /\ ret' = Ret(s.err, <<>>)
                /\ decoded' = FALSE
                /\ UNCHANGED <<gil, tpc, tloc>>
           ELSE /\ tloc' = [tloc EXCEPT ![t] = s.picosat]
                /\ gil' = Py_BEGIN_ALLOW_THREADS(gil, t)
                /\ tpc' = [tpc EXCEPT ![t] = "solve_sat"]
                /\ UNCHANGED <<op, ret, decoded>>
    /\ UNCHANGED <<pc, clauses, vars_hint, prop_limit, picosat, it, res, invoked,
                   mallocs, frees, yielded, nyield, allocFailed, stopAt, model>>

\* solve from the return of picosat_sat: the lock is taken back, then the
\* switch on res and picosat_reset
solve_leave(t) ==
    /\ pc # "undefined"
    /\ tpc[t] = "solve_sat" /\ gil = 0
    /\ gil' = Py_END_ALLOW_THREADS(gil, t)
    /\ tpc' = [tpc EXCEPT ![t] = "py"]
    /\ tloc' = [tloc EXCEPT ![t] = NoPicosat]
    /\ actor' = t
    /\ op' = "solve"
    /\ \E out \in picosat_sat(tloc[t]), listFail \in BOOLEAN :
        LET r == solve_run(out, listFail)
        IN /\ res' = out.res
           /\ invoked' = TRUE
           /\ allocFailed' = (allocFailed \/ r.failed)
           /\ model' = out.picosat.val
           /\ decoded' = r.decoded
           /\ ret' = IF r.picosat.uaf THEN Ret("undefined", <<>>) ELSE r.ret
           /\ pc' = IF r.picosat.uaf THEN "undefined" ELSE pc
    /\ UNCHANGED <<clauses, vars_hint, prop_limit, picosat, it, mallocs, frees,
                   yielded, nyield, stopAt>>

\* itersolve never releases the lock
itersolve_call(t) ==
    /\ tpc[t] = "py" /\ gil = t
    /\ itersolve_of(ThreadInputs)
    /\ actor' = t
    /\ UNCHANGED <<gil, tpc, tloc>>

\* soliter_next up to the call of picosat_sat: the lock is released.  No test
\* keeps a second thread out while a first is inside picosat_sat on
\* it->picosat; the two calls then race on the handle.
soliter_next_enter(t) ==
    /\ pc = "iter"
    /\ tpc[t] = "py" /\ gil = t
    /\ gil' = Py_BEGIN_ALLOW_THREADS(gil, t)
    /\ tpc' = [tpc EXCEPT ![t] = "next_sat"]
    /\ actor' = t
    /\ pc' = IF \E u \in Threads \ {t} : tpc[u] = "next_sat" THEN "undefined" ELSE pc
    /\ UNCHANGED <<op, clauses, vars_hint, prop_limit, picosat, it, res, ret,
                   invoked, mallocs, frees, yielded, nyield, allocFailed, stopAt,
                   model, decoded, tloc>>

\* soliter_next from the return of picosat_sat: the lock is taken back, then
\* the switch on res with get_solution and blocksol
soliter_next_leave(t) ==
    /\ tpc[t] = "next_sat" /\ gil = 0
    /\ gil' = Py_END_ALLOW_THREADS(gil, t)
    /\ tpc' = [tpc EXCEPT ![t] = "py"]
    /\ actor' = t
    /\ soliter_next_of({})
    /\ UNCHANGED tloc

\* the last reference to the cursor is dropped; a thread inside soliter_next
\* holds one
soliter_dealloc_call(t) ==
    /\ tpc[t] = "py" /\ gil = t
    /\ \A u \in Threads : tpc[u] # "next_sat"
    /\ soliter_dealloc_run
    /\ actor' = t
    /\ UNCHANGED <<gil, tpc, tloc>>

NextThreads ==
    \E t \in Threads :
        \/ drop_gil(t)
        \/ take_gil(t)
        \/ solve_enter(t)
        \/ solve_leave(t)
        \/ itersolve_call(t)
        \/ soliter_next_enter(t)
        \/ soliter_next_leave(t)
        \/ soliter_dealloc_call(t)

SpecThreads == Init /\ [][NextThreads]_vars

\* an engine answer with no assignment, as picosat_sat gives it
Answer(code) == [res |-> code, picosat |-> [picosat EXCEPT !.val = <<>>]]

\* ------------------------------------------------------------------ claims

\* C1: without a propagation limit and without an allocation failure, a
\* cursor never returns the same assignment twice, and when it first returns
\* nothing it has returned exactly as many assignments as the caller's
\* clauses have models over the engine's variables.
C1_EnumerateExactlyK ==
    (pc \in {"iter", "freed"} /\ prop_limit = 0 /\ ~allocFailed) =>
        /\ nyield = Cardinality(yielded)
        /\ stopAt # -1 => stopAt = Cardinality(InputModels(clauses, NVars))

\* C1 witness: enumerate over [[1, 2]] returned 3 assignments, then nothing
C1_Witness ==
    /\ pc = "iter" /\ prop_limit = 0 /\ ~allocFailed /\ vars_hint = -1
    /\ clauses = ListObj(<<ListObj(<<IntObj(0, 1), IntObj(0, 2)>>)>>)
    /\ stopAt = 3 /\ Cardinality(yielded) = 3

\* C2: an assignment returned by solve or by an advance of a cursor holds a
\* literal of every clause the caller passed.
C2_Sound ==
    ret.kind = "list" =>
        \A k \in 1..Len(clauses.items) : InputClauseTrue(clauses.items[k], ret.list)

\* C2 witness: a second assignment of a cursor, returned after a blocking
\* clause was added, over a non-empty clause set
C2_Witness ==
    /\ op = "soliter_next" /\ ret.kind = "list" /\ nyield = 2
    /\ Len(clauses.items) = 2 /\ picosat.cls # {}

\* C3 as stated: an UNKNOWN answer gives the caller another outcome than an
\* UNSATISFIABLE answer gives, in solve and in an advance of a cursor.
C3_UnknownNeverLikeUnsat ==
    /\ (op = "solve" /\ pc = "done" /\ res = PICOSAT_UNKNOWN) =>
           ret # solve_run(Answer(PICOSAT_UNSATISFIABLE), FALSE).ret
    /\ (op = "soliter_next" /\ pc = "iter" /\ res = PICOSAT_UNKNOWN) =>
           ret # soliter_next_run(Answer(PICOSAT_UNSATISFIABLE), it.mem, FALSE, FALSE).ret

\* C3 amended: solve answers "UNKNOWN" for UNKNOWN and "UNSAT" for
\* UNSATISFIABLE, which differ; an advance of a cursor returns nothing (the end
\* of the iteration) for both.
C3_SolveDistinguishesNextStops ==
    /\ (op = "solve" /\ pc = "done" /\ res = PICOSAT_UNKNOWN) =>
           /\ ret.kind = "UNKNOWN"
           /\ ret # solve_run(Answer(PICOSAT_UNSATISFIABLE), FALSE).ret
    /\ (op = "solve" /\ pc = "done" /\ res = PICOSAT_UNSATISFIABLE) => ret.kind = "UNSAT"
    /\ (op = "soliter_next" /\ pc = "iter"
            /\ res \in {PICOSAT_UNKNOWN, PICOSAT_UNSATISFIABLE}) => ret.kind = "stop"

\* C3 witness: an advance stopped on UNKNOWN while the clauses still had models
C3_Witness ==
    /\ op = "soliter_next" /\ pc = "iter" /\ res = PICOSAT_UNKNOWN
    /\ ret.kind = "stop" /\ Models(picosat) # {}

\* C4 as stated: a handle is never reset twice, and a request that created a
\* handle and is over (solve or a failed itersolve returned, the cursor was
\* deallocated, or the program left defined behaviour) has reset it once.
C4_ResetExactlyOnce ==
    /\ picosat.resets <= 1
    /\ (pc \in {"done", "freed", "undefined"} /\ picosat.state # "none") =>
           picosat.resets = 1

\* C5 as stated: once an advance of a cursor has returned nothing, no later
\* advance returns an assignment.
C5_ExhaustionTerminal ==
    [][(stopAt # -1 /\ op' = "soliter_next") => ret'.kind # "list"]_vars

\* C6 as stated: for a valid non-empty clause set, the assignment solve
\* returns is as long as the number of distinct variable indices the clauses
\* name, or the vars hint if larger, and holds neither a zero nor a literal
\* whose magnitude is outside 1..length.
C6_LengthIsDistinctCount ==
    (op = "solve" /\ ret.kind = "list" /\ WellFormed(clauses) /\ Len(clauses.items) > 0) =>
        /\ Len(ret.list) = Max(vars_hint, Cardinality(InputIdx(clauses)))
        /\ \A i \in 1..Len(ret.list) :
             ret.list[i] # 0 /\ Abs(ret.list[i]) \in 1..Len(ret.list)

\* C6 amended: the length is the largest variable index the clauses name, or
\* the vars hint if larger; no zero, no magnitude outside 1..length.
C6_LengthIsLargestIndex ==
    (op = "solve" /\ ret.kind = "list" /\ WellFormed(clauses) /\ Len(clauses.items) > 0) =>
        /\ Len(ret.list) = NVars
        /\ \A i \in 1..Len(ret.list) :
             ret.list[i] # 0 /\ Abs(ret.list[i]) \in 1..Len(ret.list)

\* C6 witness: solve returned an assignment longer than the number of
\* distinct indices named, with no hint given (the clauses skip an index)
C6_Witness ==
    /\ op = "solve" /\ ret.kind = "list" /\ vars_hint = -1
    /\ WellFormed(clauses) /\ Len(clauses.items) > 0
    /\ Len(ret.list) > Cardinality(InputIdx(clauses))

\* C7: a malformed clause set makes solve and itersolve return an error
\* without picosat_sat being called, and the handle created for the request
\* has been reset, once, when the error is returned; an error raised before
\* any handle was created is the arguments' or the cursor allocation's.
C7_MalformedRejected ==
    (op \in {"solve", "itersolve"} /\ ~WellFormed(clauses)) =>
        /\ ret.kind \in {"TypeError", "ValueError", "ArgError", "MemoryError"}
        /\ ~invoked
        /\ pc = "done"
        /\ IF picosat.state = "none"
           THEN ret.kind \in {"ArgError", "MemoryError"}
           ELSE /\ ret.kind \in {"TypeError", "ValueError"}
                /\ picosat.state = "reset" /\ picosat.resets = 1 /\ ~picosat.uaf

\* C7 witness: a zero literal met after a whole clause and a literal of the
\* same clause were already added
C7_Witness ==
    /\ op = "solve" /\ ret.kind = "ValueError"
    /\ Len(picosat.log) = 3 /\ picosat.cls # {} /\ picosat.open # <<>>
    /\ picosat.state = "reset"

\* C8: an advance that returns an assignment leaves strictly fewer models of
\* the engine's clauses; a cursor never returns more than 2^N assignments
\* (N the engine's variable count); an advance made when no model is left
\* returns nothing.
C8_EnumerationFinite ==
    [][/\ (op' = "soliter_next" /\ ret'.kind = "list") =>
             (Models(picosat') \subseteq Models(picosat) /\ Models(picosat') # Models(picosat))
       /\ nyield' <= 2 ^ NVars'
       /\ (pc = "iter" /\ picosat.state = "ready" /\ Models(picosat) = {}
               /\ op' = "soliter_next") => ret'.kind = "stop"]_vars

\* C8 witness: all 2^2 assignments over two variables were returned, and the
\* next advance returned nothing
C8_Witness ==
    /\ op = "soliter_next" /\ ret.kind = "stop" /\ nyield = 4 /\ NVars = 2
    /\ Models(picosat) = {}

\* C9 as stated: a cursor allocates its scratch buffer at most once, and
\* after the cursor's deallocation every buffer allocated has been freed.
C9_ScratchBufferOnce ==
    /\ mallocs <= 1
    /\ pc = "freed" => frees = mallocs

C11_BlockingClause ==
    (op = "soliter_next" /\ ret.kind = "list") =>
        LET n == picosat.max_var
            c == SubSeq(picosat.log, 1, n)
        IN /\ Len(picosat.log) = n + 1
           /\ picosat.log[n + 1] = 0
           /\ \A i \in 1..n : picosat.log[i] = IF model[i] > 0 THEN -i ELSE i
           /\ \A a \in AllAssignments(n) : ~ClauseTrue(c, a) <=> a = model

\* C11 witness: variable 1 true and variable 2 false were blocked by -1 2 0
C11_Witness ==
    /\ op = "soliter_next" /\ ret.kind = "list"
    /\ model = <<1, -1>> /\ picosat.log = <<-1, 2, 0>>

\* C12: get_solution is called only after a SATISFIABLE answer, and the list
\* it returns has one element per engine variable, i when the engine's value
\* of i is true and -i when it is false.
C12_Decode ==
    /\ decoded => res = PICOSAT_SATISFIABLE
    /\ ret.kind = "list" =>
           /\ decoded
           /\ Len(ret.list) = picosat.max_var
           /\ \A i \in 1..Len(ret.list) : ret.list[i] = IF model[i] > 0 THEN i ELSE -i

\* C12 witness: solve decoded variable 1 false and variable 2 true
C12_Witness ==
    /\ op = "solve" /\ ret.kind = "list" /\ model = <<-1, 1>> /\ ret.list = <<-1, 2>>

\* the caller's clauses in the engine's wire form: each clause's literals in
\* order, a 0 after each clause
WireOfClause(c) == [j \in 1..Len(c.items) |-> c.items[j].lo] \o <<0>>

RECURSIVE Wire(_, _)
Wire(items, k) ==
    IF k > Len(items) THEN <<>> ELSE WireOfClause(items[k]) \o Wire(items, k + 1)

\* C13: for a valid clause set the values passed to picosat_add while the
\* clauses are loaded are the clauses' literals in input order, each clause
\* followed by one 0; an empty clause is passed as a lone 0.
C13_WireForm ==
    (op \in {"solve", "itersolve"} /\ WellFormed(clauses) /\ picosat.state # "none") =>
        /\ picosat.log = Wire(clauses.items, 1)
        /\ Cardinality({k \in 1..Len(picosat.log) : picosat.log[k] = 0}) = Len(clauses.items)

\* C13 witness: [[], [1, -2]] was loaded as 0 1 -2 0
C13_Witness ==
    /\ op = "itersolve" /\ pc = "iter"
    /\ clauses = ListObj(<<ListObj(<<>>), ListObj(<<IntObj(0, 1), IntObj(0, -2)>>)>>)
    /\ picosat.log = <<0, 1, -2, 0>>

\* C17 as stated: no engine operation is applied to a handle after
\* picosat_reset destroyed it.
C17_NoUseAfterReset == ~picosat.uaf

\* C19 as stated: after an itersolve that failed while setting up its handle
\* no soliterobject remains allocated.
C19_FailedItersolveFreesCursor ==
    (op = "itersolve" /\ pc = "done") => ~it.allocated

\* C16: when picosat_sat returns a value that is none of SATISFIABLE,
\* UNSATISFIABLE and UNKNOWN, solve and soliter_next return an error
\* (SystemError), solve has reset the handle once, soliter_next leaves it
\* live and never reset, and the cursor's deallocation then resets it once.
C16_UnexpectedCodeIsError ==
    LET other == res \notin {-1, PICOSAT_SATISFIABLE, PICOSAT_UNSATISFIABLE, PICOSAT_UNKNOWN}
    IN /\ (other /\ op = "solve" /\ pc = "done") =>
              /\ ret.kind = "SystemError"
              /\ picosat.state = "reset" /\ picosat.resets = 1 /\ ~picosat.uaf
       /\ (other /\ op = "soliter_next" /\ pc = "iter") =>
              /\ ret.kind = "SystemError"
              /\ picosat.state = "ready" /\ picosat.resets = 0
       /\ (other /\ pc = "freed") =>
              picosat.state = "reset" /\ picosat.resets = 1 /\ ~picosat.uaf

\* C16 witness: an advance got the return value 30 after one assignment had
\* been returned
C16_Witness ==
    /\ op = "soliter_next" /\ pc = "iter" /\ res = 30 /\ nyield = 1
    /\ ret.kind = "SystemError"

\* C18 as stated: a non-zero int is never rejected as zero, and the value
\* passed to picosat_add is the caller's value (hi = 0 says that the value
\* hi * 2^32 + lo is the int lo that was passed).
C18_LiteralsForwardedExactly ==
    (op \in {"solve", "itersolve"} /\ clauses.isList /\ picosat.state # "none") =>
        /\ WellFormed(clauses) => ret.kind # "ValueError"
        /\ (WellFormed(clauses) /\ picosat.log = Wire(clauses.items, 1)) =>
               \A k \in 1..Len(clauses.items) : \A j \in 1..Len(clauses.items[k].items) :
                   clauses.items[k].items[j].hi = 0

\* C14: a thread between Py_BEGIN_ALLOW_THREADS and Py_END_ALLOW_THREADS (in
\* solve and in soliter_next) does not hold the lock; every step of a handler
\* is taken by a thread that holds the lock when the step starts or, for the
\* step that begins with the return of picosat_sat, has taken it back in that
\* step; and a handler's step ends with the lock released only when it ends
\* inside picosat_sat.
C14_LockReleasedOnlyInEngine ==
    [][actor' # 0 =>
          LET t == actor'
          IN /\ tpc[t] = "py" => gil = t
             /\ tpc[t] # "py" => gil # t
             /\ tpc'[t] = "py" => gil' = t
             /\ tpc'[t] # "py" => gil' = 0]_vars

\* C14 witness: thread 1 returned an assignment from soliter_next and holds
\* the lock, having taken it back while thread 2 is inside picosat_sat in solve
C14_Witness ==
    /\ op = "soliter_next" /\ ret.kind = "list" /\ actor = 1
    /\ gil = 1 /\ tpc[1] = "py" /\ tpc[2] = "solve_sat"

\* C15 as stated: no two threads are inside soliter_next's picosat_sat call
\* on the cursor's handle at once
C15_OneThreadPerSession ==
    Cardinality({t \in Threads : tpc[t] = "next_sat"}) <= 1

====
